---- MODULE Spec2Model ----
(***************************************************************************)
(* JoeAPI MCP server (src/index.ts): the HTTP request helper makeRequest,  *)
(* the fan-out aggregator (discover / search) and the streaming relay      *)
(* (async tool).                                                           *)
(*                                                                         *)
(* Strings are sequences of character tokens.  A token is one character    *)
(* ("/", ".", "?", "#", "=", "&", a letter) or one fixed multi-character   *)
(* piece of a literal ("api", "v1", a percent-escape such as "%26").       *)
(***************************************************************************)
EXTENDS Integers, Sequences, FiniteSets, TLC

\* ------------------------------------------------------------------------
\* Bounds
\* ------------------------------------------------------------------------
MaxEndpointLen == 3

MaxFrames == 3

\* frames per stream when two invocations of the relay run together
MaxConcFrames == 1

\* ------------------------------------------------------------------------
\* Generic sequence helpers
\* ------------------------------------------------------------------------
SeqsUpTo(S, n) == UNION {[1..k -> S] : k \in 0..n}

IndexOf(s, c) ==
  IF \E i \in 1..Len(s) : s[i] = c
  THEN CHOOSE i \in 1..Len(s) : s[i] = c /\ \A j \in 1..(i-1) : s[j] # c
  ELSE 0

BeforeFirst(s, c) == IF IndexOf(s, c) = 0 THEN s ELSE SubSeq(s, 1, IndexOf(s, c) - 1)

AfterFirst(s, c) == IF IndexOf(s, c) = 0 THEN <<>> ELSE SubSeq(s, IndexOf(s, c) + 1, Len(s))

RECURSIVE SplitOn(_, _)
SplitOn(s, c) ==
  IF IndexOf(s, c) = 0 THEN <<s>>
  ELSE <<BeforeFirst(s, c)>> \o SplitOn(AfterFirst(s, c), c)

RECURSIVE Flatten(_)
Flatten(ss) == IF ss = <<>> THEN <<>> ELSE Head(ss) \o Flatten(Tail(ss))

Range(s) == {s[i] : i \in 1..Len(s)}

\* ------------------------------------------------------------------------
\* makeRequest: inputs
\* ------------------------------------------------------------------------
Methods == {"GET", "POST", "DELETE"}

EndpointChars == {"/", "a", ".", "?", "#"}

Endpoints == SeqsUpTo(EndpointChars, MaxEndpointLen)

\* the data argument: null (the default) or an object
DataVals == {"null", "obj"}

\* keys of the params object, in insertion order (Object.entries order)
ParamKeyOrder == << <<"a">>, <<"k", "=">> >>

ParamVals == {"undefined", "null", "zero", "empty", "str"}

\* a params object, as the list of its entries (Object.entries(params))
ParamObjects ==
  {[i \in 1..Len(ParamKeyOrder) |-> <<ParamKeyOrder[i], f[i]>>] : f \in [1..Len(ParamKeyOrder) -> ParamVals]}

\* String(value) for the values that pass the undefined/null filter
JsString(v) ==
  CASE v = "zero"      -> <<"0">>
    [] v = "empty"     -> <<>>
    [] v = "str"       -> <<"a", "&">>
    [] v = "null"      -> <<"n", "u", "l", "l">>
    [] v = "undefined" -> <<"u", "n", "d", "e", "f", "i", "n", "e", "d">>
    [] OTHER           -> <<v>>

\* ------------------------------------------------------------------------
\* new URL(...), url.searchParams and url.toString()
\* ------------------------------------------------------------------------
ApiPrefix == <<"/", "api", "/", "v1">>

startsWithSlash(endpoint) == Len(endpoint) > 0 /\ endpoint[1] = "/"

safeEndpoint(endpoint) ==
  IF startsWithSlash(endpoint) THEN endpoint ELSE <<"/">> \o endpoint

\* the text handed to the URL parser after the origin API_BASE_URL
UrlInput(endpoint) == ApiPrefix \o safeEndpoint(endpoint)

\* URL parser, path state: dot segments are removed while parsing
RECURSIVE RemoveDotSegments(_, _, _)
RemoveDotSegments(segs, i, acc) ==
  IF i > Len(segs) THEN acc
  ELSE LET seg  == segs[i]
           last == (i = Len(segs))
           popped == IF acc = <<>> THEN acc ELSE SubSeq(acc, 1, Len(acc) - 1)
       IN  IF seg = <<".", ".">>
           THEN RemoveDotSegments(segs, i + 1, IF last THEN Append(popped, <<>>) ELSE popped)
           ELSE IF seg = <<".">>
           THEN RemoveDotSegments(segs, i + 1, IF last THEN Append(acc, <<>>) ELSE acc)
           ELSE RemoveDotSegments(segs, i + 1, Append(acc, seg))

\* pathname of the parsed URL, as its list of segments
UrlPath(input) ==
  LET pathText == BeforeFirst(BeforeFirst(input, "#"), "?")
  IN  RemoveDotSegments(Tail(SplitOn(pathText, "/")), 1, <<>>)

\* the query text of the parsed URL (between "?" and "#")
UrlRawQuery(input) == AfterFirst(BeforeFirst(input, "#"), "?")

\* application/x-www-form-urlencoded byte serializer / percent decoding
QueryEscape(c) ==
  CASE c = "&" -> "%26"
    [] c = "=" -> "%3D"
    [] c = "?" -> "%3F"
    [] c = "#" -> "%23"
    [] c = "/" -> "%2F"
    [] OTHER   -> c

QueryUnescape(c) ==
  CASE c = "%26" -> "&"
    [] c = "%3D" -> "="
    [] c = "%3F" -> "?"
    [] c = "%23" -> "#"
    [] c = "%2F" -> "/"
    [] OTHER     -> c

EscapeAll(s) == [i \in 1..Len(s) |-> QueryEscape(s[i])]

UnescapeAll(s) == [i \in 1..Len(s) |-> QueryUnescape(s[i])]

\* urlencoded parser: split on "&", drop empty pieces, split on the first "="
RECURSIVE ParsePieces(_)
ParsePieces(pieces) ==
  IF pieces = <<>> THEN <<>>
  ELSE LET p == Head(pieces)
       IN  IF p = <<>> THEN ParsePieces(Tail(pieces))
           ELSE << <<UnescapeAll(BeforeFirst(p, "=")), UnescapeAll(AfterFirst(p, "="))>> >>
                \o ParsePieces(Tail(pieces))

ParseQuery(text) == ParsePieces(SplitOn(text, "&"))

\* urlencoded serializer: name=value joined with "&"
RECURSIVE SerializeQuery(_)
SerializeQuery(pairs) ==
  IF pairs = <<>> THEN <<>>
  ELSE EscapeAll(Head(pairs)[1]) \o <<"=">> \o EscapeAll(Head(pairs)[2])
       \o (IF Len(pairs) > 1 THEN <<"&">> ELSE <<>>)
       \o SerializeQuery(Tail(pairs))

\* the forEach over Object.entries(params): append the entries that pass
RECURSIVE AppendParams(_, _)
AppendParams(list, entries) ==
  IF entries = <<>> THEN list
  ELSE LET key   == Head(entries)[1]
           value == Head(entries)[2]
       IN  IF value # "undefined" /\ value # "null"
           THEN AppendParams(Append(list, <<key, JsString(value)>>), Tail(entries))
           ELSE AppendParams(list, Tail(entries))

\* url.toString() after the appends: the request line that is fetched
BuildUrl(endpoint, params) ==
  LET input == UrlInput(endpoint)
      pairs == AppendParams(ParseQuery(UrlRawQuery(input)), params)
      appended == Len(pairs) > Len(ParseQuery(UrlRawQuery(input)))
  IN  [path  |-> UrlPath(input),
       query |-> IF appended THEN SerializeQuery(pairs) ELSE UrlRawQuery(input)]

\* options.body is attached only for a truthy data and POST / PUT
RequestBody(method, data) ==
  IF data # "null" /\ (method = "POST" \/ method = "PUT") THEN data ELSE "none"

\* options.headers: the same literal for every request
RequestHeaders == {[name |-> "Content-Type", value |-> "application/json"]}

BuildRequest(method, endpoint, data, params) ==
  [method |-> method, url |-> BuildUrl(endpoint, params), headers |-> RequestHeaders,
   body |-> RequestBody(method, data)]

\* ------------------------------------------------------------------------
\* The primary backend, as seen through fetch() and response.json()
\* ------------------------------------------------------------------------
Statuses == {200, 201, 404, 500}

NoStatus == 0

NotJson == "notjson"

\* JSON documents the backend may answer with.  "null" is the JSON null,
\* "obj" an object without a data member, the data_* values are search
\* results: {data: []}, {data: [{projectId: "p1"}]},
\* {data: [{projectId: "p2"}, {projectId: "p1"}]}, {data: [{}]}
JsonVals == {"null", "obj", "data_empty", "data_p1", "data_p2p1", "data_noid"}

\* what one fetch can do: fail at transport level, or answer
NetFail == [kind |-> "netfail", status |-> NoStatus, body |-> "none"]

NoAnswer == [kind |-> "none", status |-> NoStatus, body |-> "none"]

Answer(status, body) == [kind |-> "answer", status |-> status, body |-> body]

Behaviours(statuses, bodies) == {NetFail} \cup {Answer(s, b) : s \in statuses, b \in bodies}

\* response.ok
ResponseOk(response) == response.status >= 200 /\ response.status <= 299

\* ------------------------------------------------------------------------
\* makeRequest: the envelopes it returns
\* ------------------------------------------------------------------------
\* text: JSON.stringify(responseData, null, 2)
JsonText(v) == [k |-> "json", status |-> NoStatus, v |-> v]

\* text: `API Error ${response.status}: ${JSON.stringify(responseData, null, 2)}`
ApiErrorText(status, v) == [k |-> "apierror", status |-> status, v |-> v]

\* text: `Network Error: ${errorMsg}`
NetworkErrorText(errorMsg) == [k |-> "networkerror", status |-> NoStatus, v |-> errorMsg]

Fulfilled(text, isError) == [outcome |-> "fulfilled", text |-> text, isError |-> isError]

Rejected(error) == [outcome |-> "rejected", text |-> NetworkErrorText(error), isError |-> TRUE]

Pending == [outcome |-> "pending", text |-> JsonText("null"), isError |-> FALSE]

\* a makeRequest whose catch block lets the error escape
makeRequestCatchRethrows(error) == Rejected(error)

\* the catch block of makeRequest
makeRequestCatch(error) == Fulfilled(NetworkErrorText(error), TRUE)

\* after `await response.json()` returned responseData
makeRequestReturn(response, responseData) ==
  IF ~ResponseOk(response)
  THEN Fulfilled(ApiErrorText(response.status, responseData), TRUE)
  ELSE Fulfilled(JsonText(responseData), FALSE)

\* after `await fetch(...)` returned a response: response.json() and the rest
makeRequestAfterFetch(response) ==
  IF response.body = NotJson
  THEN makeRequestCatch("SyntaxError")
  ELSE makeRequestReturn(response, response.body)

\* the promise makeRequest returns, for one behaviour of the backend
makeRequest(behaviour) ==
  IF behaviour.kind = "netfail"
  THEN makeRequestCatch("fetch failed")
  ELSE makeRequestAfterFetch(behaviour)

\* ------------------------------------------------------------------------
\* State
\* ------------------------------------------------------------------------
VARIABLES
  config,      \* createServer({ config }): the configuration the server was built with
  mrPc,        \* makeRequest: "idle", "fetch" (awaiting fetch), "json" (awaiting response.json()), "done"
  mrArgs,      \* makeRequest: its arguments
  mrSent,      \* makeRequest: the requests handed to fetch
  mrResponse,  \* makeRequest: what the backend did
  mrPromise,   \* makeRequest: the promise returned to the caller
  dPc,         \* aggregator: "idle", "search" (awaiting the search call), "fanout" (awaiting Promise.all), "done"
  dTool,       \* aggregator: "discover" (first server) or "search" (second server)
  dArgs,       \* aggregator: the tool arguments {query, projectId}
  resolvedProjectId, \* aggregator: let resolvedProjectId
  dCalls,      \* aggregator: the requests handed to fetch, in order
  dSearchBackend,    \* aggregator: what the backend did with the search request
  dBackend,    \* aggregator: what the backend did with each fan-out request
  dBranches,   \* aggregator: the promises passed to Promise.all
  dResult,     \* aggregator: what the tool handler returned
  rPc,         \* relay: "idle", "connecting" (awaiting fetch), "reading" (awaiting reader.read()), "done"
  rFrames,     \* relay: the SSE frames the backend sends on this connection
  rTerminated, \* relay: whether the last frame sent is followed by a blank line
  rPos,        \* relay: how many tokens of the stream text have been read
  rReader,     \* relay: the stream reader: "none", "open", "cancelled", "ended", "errored"
  rTimer,      \* relay: timeoutId: "unset", "armed", "fired", "cleared"
  rCancels,    \* relay: how many times reader.cancel() ran
  buffer,      \* relay: let buffer
  finalResult, \* relay: let finalResult
  progressCount, \* relay: let progressCount
  rResult,     \* relay: what the tool handler returned
  wPc,         \* webhook relay: "idle", "fetch", "text", "json" (the three awaits), "done"
  wTimer,      \* webhook relay: timeoutId: "unset", "armed", "fired", "cleared"
  wResponse,   \* webhook relay: what the backend did
  wResult,     \* webhook relay: what the tool handler returned
  cPc,         \* combining tool: "idle", "all" (awaiting Promise.all), "first", "second" (awaiting that call), "done"
  cTool,       \* combining tool: the tool that was called
  cArgs,       \* combining tool: its arguments
  cCalls,      \* combining tool: the requests handed to makeRequest, in order
  cBackend,    \* combining tool: what the backend did with each request
  cSub,        \* combining tool: the promises of its makeRequest calls
  cResult,     \* combining tool: what the tool handler returned or threw
  inv,         \* concurrent relay calls: per invocation, its position, stream, reader, timer, result
  locals,      \* concurrent relay calls: per storage cell, let buffer / finalResult / progressCount
  tPc,         \* simple tool: "idle", "fetch" (awaiting makeRequest), "done"
  tArgs,       \* simple tool: the server, the tool that was called and its arguments
  tSent,       \* simple tool: the requests handed to makeRequest
  tResult      \* simple tool: what the tool handler returned

mrVars == <<mrPc, mrArgs, mrSent, mrResponse, mrPromise>>

dVars == <<dPc, dTool, dArgs, resolvedProjectId, dCalls, dSearchBackend, dBackend, dBranches, dResult>>

rVars == <<rPc, rFrames, rTerminated, rPos, rReader, rTimer, rCancels, buffer, finalResult, progressCount, rResult>>

\* what the actions of one component leave alone
wVars == <<wPc, wTimer, wResponse, wResult>>

cVars == <<cPc, cTool, cArgs, cCalls, cBackend, cSub, cResult>>

kVars == <<inv, locals>>

tVars == <<tPc, tArgs, tSent, tResult>>

notMr == <<config, dVars, rVars, wVars, cVars, kVars, tVars>>

notD == <<config, mrVars, rVars, wVars, cVars, kVars, tVars>>

notR == <<config, mrVars, dVars, wVars, cVars, kVars, tVars>>

notW == <<config, mrVars, dVars, rVars, cVars, kVars, tVars>>

notC == <<config, mrVars, dVars, rVars, wVars, kVars, tVars>>

notK == <<config, mrVars, dVars, rVars, wVars, cVars, tVars>>

notT == <<config, mrVars, dVars, rVars, wVars, cVars, kVars>>

vars == <<config, mrVars, dVars, rVars, wVars, cVars, kVars, tVars>>

\* ------------------------------------------------------------------------
\* The configuration: main() passes process.env.JOEAPI_API_KEY as apiKey
\* ------------------------------------------------------------------------
ApiKeys == {"undefined", "secret"}

Configs == [apiKey : ApiKeys]

Configured == config \in Configs

\* ------------------------------------------------------------------------
\* makeRequest, one call, step by step
\* ------------------------------------------------------------------------
\* bodies the backend answers a lone makeRequest call with
MrBodies == {"null", "obj", NotJson}

NoArgs == [method |-> "GET", endpoint |-> <<>>, data |-> "null", params |-> <<>>]

mrIdle ==
  /\ mrPc = "idle"
  /\ mrArgs = NoArgs
  /\ mrSent = <<>>
  /\ mrResponse = NoAnswer
  /\ mrPromise = Pending

\* the call up to `await fetch(url.toString(), options)`
mrCall ==
  /\ mrPc = "idle"
  /\ \E method \in Methods, endpoint \in Endpoints, data \in DataVals, params \in ParamObjects :
        /\ mrArgs' = [method |-> method, endpoint |-> endpoint, data |-> data, params |-> params]
        /\ mrSent' = Append(mrSent, BuildRequest(method, endpoint, data, params))
  /\ mrPc' = "fetch"
  /\ UNCHANGED <<mrResponse, mrPromise, notMr>>

\* fetch settles: it rejects (transport failure) or resolves to a response
mrFetchSettle ==
  /\ mrPc = "fetch"
  /\ \E behaviour \in Behaviours(Statuses, MrBodies) :
        /\ mrResponse' = behaviour
        /\ IF behaviour.kind = "netfail"
           THEN mrPromise' = makeRequest(behaviour) /\ mrPc' = "done"
           ELSE mrPromise' = mrPromise /\ mrPc' = "json"
  /\ UNCHANGED <<mrArgs, mrSent, notMr>>

\* response.json() settles, and makeRequest returns
mrJsonSettle ==
  /\ mrPc = "json"
  /\ mrPromise' = makeRequestAfterFetch(mrResponse)
  /\ mrPc' = "done"
  /\ UNCHANGED <<mrArgs, mrSent, mrResponse, notMr>>

\* ------------------------------------------------------------------------
\* Fan-out aggregator: the discover tool (first server) and the aggregating
\* search tool (second server)
\* ------------------------------------------------------------------------
Tools == {"discover", "search"}

Queries == {"kitchen"}

\* the optional projectId argument: absent, the empty string, or an id
ProjectIdArgs == {"undefined", "empty", "p9"}

\* !value in JavaScript
Falsy(value) == value \in {"undefined", "null", "empty", "zero", "false"}

\* the endpoints of the Promise.all array, in array order
FanoutEndpoints(tool) ==
  IF tool = "discover"
  THEN << <<"/", "projects">>, <<"/", "action-items">>, <<"/", "estimates">>,
          <<"/", "schedules">>, <<"/", "job-balances">>, <<"/", "cost-variance">> >>
  ELSE << <<"/", "transactions">>, <<"/", "action-items">>, <<"/", "estimates">>,
          <<"/", "schedules">>, <<"/", "schedule-revisions">>,
          <<"/", "estimates", "/", "revision-history">> >>

Branches(tool) == 1..Len(FanoutEndpoints(tool))

\* makeRequest('GET', '/search', null, {q: query})
SearchRequest(query) ==
  BuildRequest("GET", <<"/", "search">>, "null", << << <<"q">>, query >> >>)

\* makeRequest('GET', endpoint, null, {projectId: resolvedProjectId}), for each endpoint
FanoutRequests(tool, projectId) ==
  [i \in Branches(tool) |->
     BuildRequest("GET", FanoutEndpoints(tool)[i], "null", << << <<"projectId">>, projectId >> >>)]

\* the backend: the document served at an endpoint is named after the endpoint
DocumentAt(endpoint) == endpoint[Len(endpoint)]

FanoutBehaviours(endpoint) ==
  {NetFail, Answer(200, DocumentAt(endpoint)), Answer(500, "obj"), Answer(404, NotJson)}

SearchBodies == JsonVals \cup {NotJson}

SearchStatuses == {200, 500}

\* JSON.parse(text) throws unless text is a JSON text
JsonParseThrows(text) == text.k # "json"

\* searchData.data || []  (the projectId of each project; "undefined" when it has none)
ProjectsOf(searchData) ==
  CASE searchData = "data_p1"   -> <<"p1">>
    [] searchData = "data_p2p1" -> <<"p2", "p1">>
    [] searchData = "data_noid" -> <<"undefined">>
    [] OTHER                    -> <<>>

\* what a tool handler hands back: an envelope, or an exception
NoDoc == <<>>

Returned(text, isError) ==
  [outcome |-> "returned", isError |-> isError, text |-> text, doc |-> NoDoc]

ReturnedDoc(doc) ==
  [outcome |-> "returned", isError |-> FALSE,
   text |-> [k |-> "document", status |-> NoStatus, v |-> "document"], doc |-> doc]

Thrown ==
  [outcome |-> "thrown", isError |-> FALSE,
   text |-> [k |-> "exception", status |-> NoStatus, v |-> "exception"], doc |-> NoDoc]

NotReturned ==
  [outcome |-> "pending", isError |-> FALSE,
   text |-> [k |-> "none", status |-> NoStatus, v |-> "none"], doc |-> NoDoc]

\* `No project found matching query: "${query}"`
NoProjectText(query) == [k |-> "noproject", status |-> NoStatus, v |-> query]

\* `Error parsing search results: ${error.message}`
SearchParseErrorText == [k |-> "searchparseerror", status |-> NoStatus, v |-> "TypeError"]

\* a search step that takes the first match of an empty list as "no id"
SearchStepLenient(searchResponse, query) ==
  IF searchResponse.isError
  THEN [stop |-> TRUE, result |-> Returned(searchResponse.text, TRUE), resolved |-> "undefined"]
  ELSE IF JsonParseThrows(searchResponse.text) \/ searchResponse.text.v = "null"
  THEN [stop |-> TRUE, result |-> Returned(SearchParseErrorText, TRUE), resolved |-> "undefined"]
  ELSE LET projects == ProjectsOf(searchResponse.text.v)
       IN  [stop |-> FALSE, result |-> NotReturned,
            resolved |-> IF Len(projects) = 0 THEN "undefined" ELSE projects[1]]

\* Step 1 after the search call returned: stop with an envelope, or resolve the id
SearchStep(searchResponse, query) ==
  IF searchResponse.isError
  THEN [stop |-> TRUE, result |-> Returned(searchResponse.text, TRUE), resolved |-> "undefined"]
  ELSE IF JsonParseThrows(searchResponse.text) \/ searchResponse.text.v = "null"
  THEN [stop |-> TRUE, result |-> Returned(SearchParseErrorText, TRUE), resolved |-> "undefined"]
  ELSE LET projects == ProjectsOf(searchResponse.text.v)
       IN  IF Len(projects) = 0
           THEN [stop |-> TRUE, result |-> Returned(NoProjectText(query), TRUE), resolved |-> "undefined"]
           ELSE [stop |-> FALSE, result |-> NotReturned, resolved |-> projects[1]]

\* a join that settles with the first branch that does
PromiseRace(promises) ==
  IF \E i \in DOMAIN promises : promises[i].outcome = "rejected" THEN "rejected"
  ELSE IF \E i \in DOMAIN promises : promises[i].outcome = "fulfilled" THEN "fulfilled"
  ELSE "pending"

\* Promise.all: rejects with the first rejection, fulfils when all have fulfilled
PromiseAll(promises) ==
  IF \E i \in DOMAIN promises : promises[i].outcome = "rejected" THEN "rejected"
  ELSE IF \A i \in DOMAIN promises : promises[i].outcome = "fulfilled" THEN "fulfilled"
  ELSE "pending"

\* 'Failed to parse response'
FailedToParseText == [k |-> "failedtoparse", status |-> NoStatus, v |-> "none"]

\* const parseResponse = (response) => ...
parseResponse(response) ==
  IF response.isError
  THEN [error |-> TRUE, of |-> response.text]
  ELSE IF JsonParseThrows(response.text)
  THEN [error |-> TRUE, of |-> FailedToParseText]
  ELSE [error |-> FALSE, of |-> JsonText(response.text.v)]

\* a structuredData with two of the destructured names exchanged
structuredDataSwapped(projectId, r) ==
  ("projectId" :> [error |-> FALSE, of |-> JsonText(projectId)])
  @@ ("project" :> parseResponse(r[1]))
  @@ ("financials.estimates" :> parseResponse(r[4]))
  @@ ("financials.jobBalances" :> parseResponse(r[5]))
  @@ ("financials.costVariance" :> parseResponse(r[6]))
  @@ ("schedules" :> parseResponse(r[3]))
  @@ ("actionItems" :> parseResponse(r[2]))

\* discover: [projectDetails, actionItems, estimates, schedules, jobBalances,
\* costVariance] = results, and const structuredData = {...}
structuredData(projectId, r) ==
  ("projectId" :> [error |-> FALSE, of |-> JsonText(projectId)])
  @@ ("project" :> parseResponse(r[1]))
  @@ ("financials.estimates" :> parseResponse(r[3]))
  @@ ("financials.jobBalances" :> parseResponse(r[5]))
  @@ ("financials.costVariance" :> parseResponse(r[6]))
  @@ ("schedules" :> parseResponse(r[4]))
  @@ ("actionItems" :> parseResponse(r[2]))

\* search: one titled section, `${title}:\nError: ${text}` or `${title}:\n${text}`
section(data) == [error |-> data.isError, of |-> data.text]

\* search: [transactions, actionItems, estimates, schedules, scheduleRevisions,
\* estimateRevisions] = results, const sections = [...] and const output
output(projectId, r) ==
  ("projectId" :> [error |-> FALSE, of |-> JsonText(projectId)])
  @@ ("TRANSACTIONS" :> section(r[1]))
  @@ ("ACTION ITEMS" :> section(r[2]))
  @@ ("ESTIMATES" :> section(r[3]))
  @@ ("SCHEDULES" :> section(r[4]))
  @@ ("SCHEDULE REVISIONS" :> section(r[5]))
  @@ ("ESTIMATE REVISIONS" :> section(r[6]))

\* an aggregator that reports a total failure when a branch failed
aggregateAllOrNothing(tool, projectId, r) ==
  IF \E i \in DOMAIN r : r[i].isError
  THEN Returned(r[CHOOSE i \in DOMAIN r : r[i].isError /\ \A j \in 1..(i-1) : ~r[j].isError].text, TRUE)
  ELSE ReturnedDoc(IF tool = "discover" THEN structuredData(projectId, r) ELSE output(projectId, r))

\* Step 3: the envelope returned after Promise.all fulfilled
aggregate(tool, projectId, r) ==
  ReturnedDoc(IF tool = "discover" THEN structuredData(projectId, r) ELSE output(projectId, r))

NoToolArgs == [query |-> "kitchen", projectId |-> "undefined"]

dIdle ==
  /\ dPc = "idle"
  /\ dTool = "discover"
  /\ dArgs = NoToolArgs
  /\ resolvedProjectId = "undefined"
  /\ dCalls = <<>>
  /\ dSearchBackend = NoAnswer
  /\ dBackend = [i \in Branches("discover") |-> NoAnswer]
  /\ dBranches = [i \in Branches("discover") |-> Pending]
  /\ dResult = NotReturned

\* Step 2 up to `await Promise.all([...])`: the fan-out requests are all issued
dFanout(tool, projectId) ==
  /\ resolvedProjectId' = projectId
  /\ dCalls' = dCalls \o FanoutRequests(tool, projectId)
  /\ dBranches' = [i \in Branches(tool) |-> Pending]
  /\ dPc' = "fanout"
  /\ dResult' = dResult

\* the tool is called: with a projectId the search step is skipped
dCall ==
  /\ dPc = "idle"
  /\ \E tool \in Tools, query \in Queries, projectId \in ProjectIdArgs :
        /\ dTool' = tool
        /\ dArgs' = [query |-> query, projectId |-> projectId]
        /\ IF Falsy(projectId)
           THEN /\ dCalls' = Append(dCalls, SearchRequest(query))
                /\ dPc' = "search"
                /\ resolvedProjectId' = projectId
                /\ UNCHANGED <<dBranches, dResult>>
           ELSE dFanout(tool, projectId)
  /\ UNCHANGED <<dSearchBackend, dBackend, notD>>

\* the search call returns: Step 1, and, when an id was resolved, Step 2
dSearchSettle ==
  /\ dPc = "search"
  /\ \E behaviour \in Behaviours(SearchStatuses, SearchBodies) :
        LET searchResponse == makeRequest(behaviour)
            step == SearchStep(searchResponse, dArgs.query)
        IN  /\ dSearchBackend' = behaviour
            /\ IF searchResponse.outcome = "rejected"
               THEN /\ dResult' = Thrown
                    /\ dPc' = "done"
                    /\ UNCHANGED <<resolvedProjectId, dCalls, dBranches>>
               ELSE IF step.stop
               THEN /\ dResult' = step.result
                    /\ dPc' = "done"
                    /\ UNCHANGED <<resolvedProjectId, dCalls, dBranches>>
               ELSE dFanout(dTool, step.resolved)
  /\ UNCHANGED <<dTool, dArgs, dBackend, notD>>

\* one fan-out request settles; when that settles Promise.all, Step 3 runs
dBranchSettle(i) ==
  /\ dPc = "fanout"
  /\ dBranches[i].outcome = "pending"
  /\ \E behaviour \in FanoutBehaviours(FanoutEndpoints(dTool)[i]) :
        LET settled == [dBranches EXCEPT ![i] = makeRequest(behaviour)]
            all == PromiseAll(settled)
        IN  /\ dBackend' = [dBackend EXCEPT ![i] = behaviour]
            /\ dBranches' = settled
            /\ IF all = "pending"
               THEN UNCHANGED <<dPc, dResult>>
               ELSE /\ dPc' = "done"
                    /\ dResult' = IF all = "rejected" THEN Thrown
                                  ELSE aggregate(dTool, resolvedProjectId, settled)
  /\ UNCHANGED <<dTool, dArgs, resolvedProjectId, dCalls, dSearchBackend, notD>>

\* ------------------------------------------------------------------------
\* Streaming relay: the async tool (first server)
\* ------------------------------------------------------------------------
LF == "\n"

DataMarker == "data: "

\* the frames the backend sends, and the text of each (without the blank line)
FrameKinds ==
  {"progress", "completeA", "complete0", "error", "errorB", "badjson", "comment"}

FrameText(kind) ==
  CASE kind = "progress"  -> <<DataMarker, "{progress}">>
    [] kind = "completeA" -> <<DataMarker, "{complete:a}">>
    [] kind = "complete0" -> <<DataMarker, "{complete:0}">>
    [] kind = "error"     -> <<DataMarker, "{error}">>
    [] kind = "errorB"    -> <<DataMarker, "{error:b}">>
    [] kind = "badjson"   -> <<DataMarker, "{bad">>
    [] kind = "comment"   -> <<": ping">>

FrameSeqs == SeqsUpTo(FrameKinds, MaxFrames)

\* the text of the response body: every frame is followed by a blank line,
\* except the last one when the backend closes without it
RECURSIVE StreamText(_, _)
StreamText(frames, terminated) ==
  IF frames = <<>> THEN <<>>
  ELSE FrameText(Head(frames))
       \o (IF Len(frames) > 1 \/ terminated THEN <<LF, LF>> ELSE <<>>)
       \o StreamText(Tail(frames), terminated)

\* buffer.split('\n\n')
RECURSIVE SplitFrames(_)
SplitFrames(text) ==
  LET at(i) == text[i] = LF /\ text[i + 1] = LF
  IN  IF \E i \in 1..(Len(text) - 1) : at(i)
      THEN LET i == CHOOSE i \in 1..(Len(text) - 1) : at(i) /\ \A j \in 1..(i - 1) : ~at(j)
           IN  <<SubSeq(text, 1, i - 1)>> \o SplitFrames(SubSeq(text, i + 2, Len(text)))
      ELSE <<text>>

\* !line.trim() || !line.startsWith('data: ')
lineSkipped(line) ==
  \/ \A i \in 1..Len(line) : line[i] = LF
  \/ line[1] # DataMarker

\* JSON.parse(line.substring(6)); white space around the value is allowed
Payload(line) == SelectSeq(Tail(line), LAMBDA t : t # LF)

JsonPayloads ==
  {"{progress}", "{complete:a}", "{complete:0}", "{error}", "{error:b}"}

JsonParseFails(line) == ~(Len(Payload(line)) = 1 /\ Payload(line)[1] \in JsonPayloads)

\* eventData.type, eventData.data and eventData.message
EventType(eventData) ==
  CASE eventData = "{progress}" -> "progress"
    [] eventData \in {"{complete:a}", "{complete:0}"} -> "complete"
    [] eventData \in {"{error}", "{error:b}"} -> "error"

EventData(eventData) ==
  CASE eventData = "{complete:a}" -> "a"
    [] eventData = "{complete:0}" -> "zero"

EventMessage(eventData) ==
  CASE eventData = "{error}" -> "agent failed"
    [] eventData = "{error:b}" -> "quota exceeded"

\* the texts the relay returns
RelayText(k, status, v, n) == [k |-> k, status |-> status, v |-> v, n |-> n]

TIMEOUT_MS == 360000

\* `Async-agent error (${response.status}): ${errorText}`
HttpErrorText(status) == RelayText("httperror", status, "errorText", 0)

\* `Async-agent error: ${eventData.message}`
EventErrorText(message) == RelayText("eventerror", NoStatus, message, 0)

\* `Stream ended without completion event (received ${progressCount} progress events)`
IncompleteText(n) == RelayText("incomplete", NoStatus, "none", n)

\* JSON.stringify(finalResult, null, 2)
ResultText(v) == RelayText("json", NoStatus, v, 0)

\* `Async-agent timeout: Request exceeded ${TIMEOUT_MS / 1000} seconds`
TimeoutText == RelayText("timeout", NoStatus, "none", TIMEOUT_MS \div 1000)

\* `Async-agent error: ${error.name}: ${error.message}...`
ExceptionText(name) == RelayText("exception", NoStatus, name, 0)

RelayReturned(text, isError) == [outcome |-> "returned", isError |-> isError, text |-> text]

RelayNotReturned == [outcome |-> "pending", isError |-> FALSE, text |-> RelayText("none", NoStatus, "none", 0)]

\* the outer catch block
relayCatch(errorName) ==
  IF errorName = "AbortError"
  THEN RelayReturned(TimeoutText, TRUE)
  ELSE RelayReturned(ExceptionText(errorName), TRUE)

\* the state of the for loop over lines: the two counters, and whether the
\* error branch has returned
LoopState(result, count, returned, message) ==
  [finalResult |-> result, progressCount |-> count, returned |-> returned, message |-> message]

\* a loop body whose progress branch also captures a result
handleLineProgressCaptures(st, line) ==
  IF st.returned \/ lineSkipped(line) \/ JsonParseFails(line) THEN st
  ELSE LET eventData == Payload(line)[1]
       IN  CASE EventType(eventData) = "progress" ->
                  LoopState("a", st.progressCount + 1, FALSE, st.message)
             [] EventType(eventData) = "complete" ->
                  LoopState(EventData(eventData), st.progressCount, FALSE, st.message)
             [] EventType(eventData) = "error" ->
                  LoopState(st.finalResult, st.progressCount, TRUE, EventMessage(eventData))

\* a loop body without the try/catch around JSON.parse: a bad payload ends the call
handleLineParseFatal(st, line) ==
  IF st.returned \/ lineSkipped(line) THEN st
  ELSE IF JsonParseFails(line)
  THEN LoopState(st.finalResult, st.progressCount, TRUE, "SyntaxError")
  ELSE LET eventData == Payload(line)[1]
       IN  CASE EventType(eventData) = "progress" ->
                  LoopState(st.finalResult, st.progressCount + 1, FALSE, st.message)
             [] EventType(eventData) = "complete" ->
                  LoopState(EventData(eventData), st.progressCount, FALSE, st.message)
             [] EventType(eventData) = "error" ->
                  LoopState(st.finalResult, st.progressCount, TRUE, EventMessage(eventData))

\* a loop body whose error branch returns only while no result was captured
handleLineCompleteMasks(st, line) ==
  IF st.returned \/ lineSkipped(line) \/ JsonParseFails(line) THEN st
  ELSE LET eventData == Payload(line)[1]
       IN  CASE EventType(eventData) = "progress" ->
                  LoopState(st.finalResult, st.progressCount + 1, FALSE, st.message)
             [] EventType(eventData) = "complete" ->
                  LoopState(EventData(eventData), st.progressCount, FALSE, st.message)
             [] EventType(eventData) = "error" ->
                  LoopState(st.finalResult, st.progressCount, st.finalResult = "null",
                            EventMessage(eventData))

\* a loop body whose error branch records the message but does not return
handleLineErrorContinues(st, line) ==
  IF lineSkipped(line) \/ JsonParseFails(line) THEN st
  ELSE LET eventData == Payload(line)[1]
       IN  CASE EventType(eventData) = "progress" ->
                  LoopState(st.finalResult, st.progressCount + 1, FALSE, st.message)
             [] EventType(eventData) = "complete" ->
                  LoopState(EventData(eventData), st.progressCount, FALSE, st.message)
             [] EventType(eventData) = "error" ->
                  LoopState(st.finalResult, st.progressCount, FALSE, EventMessage(eventData))

\* the body of `for (const line of lines)`
handleLine(st, line) ==
  IF st.returned \/ lineSkipped(line) \/ JsonParseFails(line) THEN st
  ELSE LET eventData == Payload(line)[1]
       IN  CASE EventType(eventData) = "progress" ->
                  LoopState(st.finalResult, st.progressCount + 1, FALSE, st.message)
             [] EventType(eventData) = "complete" ->
                  LoopState(EventData(eventData), st.progressCount, FALSE, st.message)
             [] EventType(eventData) = "error" ->
                  LoopState(st.finalResult, st.progressCount, TRUE, EventMessage(eventData))

\* a read that does not keep the trailing partial segment
poppedDiscarded(lines) == <<>>

\* the new buffer: `lines.pop() || ''`, the segment after the last blank line
popped(lines) == lines[Len(lines)]

\* a split that also hands the trailing partial segment to the loop
completeLinesKeepLast(lines) == lines

\* the lines left in `lines` after `buffer = lines.pop() || ''`
completeLines(lines) == SubSeq(lines, 1, Len(lines) - 1)

RECURSIVE forLines(_, _)
forLines(st, lines) ==
  IF lines = <<>> THEN st ELSE forLines(handleLine(st, Head(lines)), Tail(lines))

\* after the loop: `if (!finalResult)` and the two returns
relayFinal(result, count) ==
  IF Falsy(result)
  THEN RelayReturned(IncompleteText(count), TRUE)
  ELSE RelayReturned(ResultText(result), FALSE)

\* a clearTimeout that is forgotten
clearTimeoutForgotten(timer) == timer

\* clearTimeout(timeoutId)
clearTimeout(timer) == IF timer = "armed" THEN "cleared" ELSE timer

rIdle ==
  /\ rPc = "idle"
  /\ rFrames = <<>>
  /\ rTerminated = TRUE
  /\ rPos = 0
  /\ rReader = "none"
  /\ rTimer = "unset"
  /\ rCancels = 0
  /\ buffer = <<>>
  /\ finalResult = "null"
  /\ progressCount = 0
  /\ rResult = RelayNotReturned

\* the tool is called: the POST is issued
rCall ==
  /\ rPc = "idle"
  /\ rPc' = "connecting"
  /\ UNCHANGED <<rFrames, rTerminated, rPos, rReader, rTimer, rCancels, buffer, finalResult,
                 progressCount, rResult, notR>>

\* fetch rejects
rFetchReject ==
  /\ rPc = "connecting"
  /\ rResult' = relayCatch("TypeError")
  /\ rPc' = "done"
  /\ UNCHANGED <<rFrames, rTerminated, rPos, rReader, rTimer, rCancels, buffer, finalResult,
                 progressCount, notR>>

\* fetch resolves with a non-2xx response: response.text() gives the error
\* body, or rejects when the connection breaks while the body is read
rHttpError ==
  /\ rPc = "connecting"
  /\ \/ \E status \in {404, 500} : rResult' = RelayReturned(HttpErrorText(status), TRUE)
     \/ rResult' = relayCatch("TypeError")
  /\ rPc' = "done"
  /\ UNCHANGED <<rFrames, rTerminated, rPos, rReader, rTimer, rCancels, buffer, finalResult,
                 progressCount, notR>>

\* fetch resolves with a 2xx response that has no body
rNoBody ==
  /\ rPc = "connecting"
  /\ rResult' = relayCatch("Error")
  /\ rPc' = "done"
  /\ UNCHANGED <<rFrames, rTerminated, rPos, rReader, rTimer, rCancels, buffer, finalResult,
                 progressCount, notR>>

\* fetch resolves with a 2xx response: the reader is taken and the timer set
rStreamOpen ==
  /\ rPc = "connecting"
  /\ \E frames \in FrameSeqs, terminated \in BOOLEAN :
        /\ (frames = <<>> => terminated)
        /\ rFrames' = frames
        /\ rTerminated' = terminated
  /\ rReader' = "open"
  /\ rTimer' = "armed"
  /\ rPc' = "reading"
  /\ UNCHANGED <<rPos, rCancels, buffer, finalResult, progressCount, rResult, notR>>

\* reader.read() resolves with a chunk of n tokens, and the chunk is processed
rRead(n) ==
  /\ rPc = "reading"
  /\ rReader = "open"
  /\ n \in 1..(Len(StreamText(rFrames, rTerminated)) - rPos)
  /\ LET chunk == SubSeq(StreamText(rFrames, rTerminated), rPos + 1, rPos + n)
         lines == SplitFrames(buffer \o chunk)
         st    == forLines(LoopState(finalResult, progressCount, FALSE, "none"),
                           completeLines(lines))
     IN  /\ rPos' = rPos + n
         /\ buffer' = popped(lines)
         /\ finalResult' = st.finalResult
         /\ progressCount' = st.progressCount
         /\ IF st.returned
            THEN /\ rTimer' = clearTimeout(rTimer)
                 /\ rResult' = RelayReturned(EventErrorText(st.message), TRUE)
                 /\ rPc' = "done"
            ELSE UNCHANGED <<rTimer, rResult, rPc>>
  /\ UNCHANGED <<rFrames, rTerminated, rReader, rCancels, notR>>

\* reader.read() resolves with done: the backend closed, or the reader was cancelled
rStreamEnd ==
  /\ rPc = "reading"
  /\ \/ rReader = "open" /\ rPos = Len(StreamText(rFrames, rTerminated)) /\ rReader' = "ended"
     \/ rReader = "cancelled" /\ rReader' = rReader
  /\ rTimer' = clearTimeout(rTimer)
  /\ rResult' = relayFinal(finalResult, progressCount)
  /\ rPc' = "done"
  /\ UNCHANGED <<rFrames, rTerminated, rPos, rCancels, buffer, finalResult, progressCount, notR>>

\* reader.read() rejects: the connection broke
rReadError ==
  /\ rPc = "reading"
  /\ rReader = "open"
  /\ rReader' = "errored"
  /\ rTimer' = clearTimeout(rTimer)
  /\ rResult' = relayCatch("TypeError")
  /\ rPc' = "done"
  /\ UNCHANGED <<rFrames, rTerminated, rPos, rCancels, buffer, finalResult, progressCount, notR>>

\* the timer callback: reader.cancel()
rTimeout ==
  /\ rTimer = "armed"
  /\ rTimer' = "fired"
  /\ rCancels' = rCancels + 1
  /\ rReader' = IF rReader = "open" THEN "cancelled" ELSE rReader
  /\ UNCHANGED <<rPc, rFrames, rTerminated, rPos, buffer, finalResult, progressCount, rResult, notR>>

\* ------------------------------------------------------------------------
\* Webhook relay: the async tool (second server)
\* ------------------------------------------------------------------------
WEBHOOK_TIMEOUT_MS == 120000

\* `Async-agent timeout: Request exceeded ${TIMEOUT_MS / 1000} seconds`
WebhookTimeoutText == RelayText("timeout", NoStatus, "none", WEBHOOK_TIMEOUT_MS \div 1000)

\* `Async-agent error: ${error.message || String(error)}`
WebhookErrorText(message) == RelayText("eventerror", NoStatus, message, 0)

\* the catch block
webhookCatch(errorName) ==
  IF errorName = "AbortError"
  THEN RelayReturned(WebhookTimeoutText, TRUE)
  ELSE RelayReturned(WebhookErrorText(errorName), TRUE)

WebhookBodies == {"obj", "null", NotJson}

wIdle ==
  /\ wPc = "idle"
  /\ wTimer = "unset"
  /\ wResponse = NoAnswer
  /\ wResult = RelayNotReturned

\* the tool is called: the timer is set, then the POST is issued with the signal
wCall ==
  /\ wPc = "idle"
  /\ wTimer' = "armed"
  /\ wPc' = "fetch"
  /\ UNCHANGED <<wResponse, wResult, notW>>

\* fetch rejects on its own: the catch block returns, the timer is left as it is
wFetchReject ==
  /\ wPc = "fetch"
  /\ wResponse' = NetFail
  /\ wResult' = webhookCatch("TypeError")
  /\ wPc' = "done"
  /\ UNCHANGED <<wTimer, notW>>

\* fetch resolves with the response headers: clearTimeout(timeoutId)
wHeaders ==
  /\ wPc = "fetch"
  /\ \E status \in {200, 404, 500}, body \in WebhookBodies :
        /\ wResponse' = Answer(status, body)
        /\ wPc' = IF ResponseOk(Answer(status, body)) THEN "json" ELSE "text"
  /\ wTimer' = clearTimeout(wTimer)
  /\ UNCHANGED <<wResult, notW>>

\* the body arrives: response.text() or response.json() settles
wBody ==
  /\ wPc \in {"text", "json"}
  /\ wResult' = IF wPc = "text"
                THEN RelayReturned(HttpErrorText(wResponse.status), TRUE)
                ELSE IF wResponse.body = NotJson
                THEN webhookCatch("SyntaxError")
                ELSE RelayReturned(ResultText(wResponse.body), FALSE)
  /\ wPc' = "done"
  /\ UNCHANGED <<wTimer, wResponse, notW>>

\* the connection breaks while the body is read
wBodyError ==
  /\ wPc \in {"text", "json"}
  /\ wResult' = webhookCatch("TypeError")
  /\ wPc' = "done"
  /\ UNCHANGED <<wTimer, wResponse, notW>>

\* the timer callback: controller.abort() rejects the await that holds the signal
wTimeout ==
  /\ wTimer = "armed"
  /\ wTimer' = "fired"
  /\ IF wPc \in {"fetch", "text", "json"}
     THEN /\ wResult' = webhookCatch("AbortError")
          /\ wPc' = "done"
     ELSE UNCHANGED <<wResult, wPc>>
  /\ UNCHANGED <<wResponse, notW>>

\* ------------------------------------------------------------------------
\* Combining tools: get_financials, find_estimate, find_schedule (first
\* server), get_proposal_details, get_project_finances (second server)
\* ------------------------------------------------------------------------
CombiningTools ==
  {"get_financials", "find_estimate", "find_schedule", "get_proposal_details",
   "get_project_finances"}

FindTools == {"find_estimate", "find_schedule"}

\* the optional includeLines argument
IncludeLinesArgs == {"undefined", "false", "true"}

\* the argument objects the schema of each tool admits: id is the projectId
\* (optional for the find tools) or the proposalId
CombineArgs(tool) ==
  [query : Queries,
   id : IF tool \in FindTools THEN ProjectIdArgs ELSE {"p9"},
   includeLines : IF tool = "get_proposal_details" THEN IncludeLinesArgs ELSE {"undefined"}]

NoCombineArgs == [query |-> "kitchen", id |-> "undefined", includeLines |-> "undefined"]

Param(key, value) == << <<key>>, value >>

\* the makeRequest calls a handler makes before its first await
FirstRequests(tool, args) ==
  CASE tool = "get_financials" ->
         << BuildRequest("GET", <<"/", "job-balances">>, "null", <<Param("projectId", args.id)>>),
            BuildRequest("GET", <<"/", "cost-variance">>, "null", <<Param("projectId", args.id)>>) >>
    [] tool = "find_estimate" ->
         << BuildRequest("GET", <<"/", "search">>, "null",
                         <<Param("q", args.query), Param("type", "estimate")>>) >>
    [] tool = "find_schedule" ->
         << BuildRequest("GET", <<"/", "search">>, "null",
                         <<Param("q", args.query), Param("type", "schedule")>>) >>
    [] tool = "get_proposal_details" ->
         << BuildRequest("GET", <<"/", "proposals", "/", args.id>>, "null", <<>>) >>
    [] tool = "get_project_finances" ->
         << BuildRequest("GET", <<"/", "job-balances">>, "null", <<Param("projectId", args.id)>>) >>

\* the makeRequest call a sequential handler makes after the first one
SecondRequest(tool, args) ==
  CASE tool = "find_estimate" ->
         BuildRequest("GET", <<"/", "search">>, "null",
                      <<Param("q", args.query), Param("type", "estimateCategory"),
                        Param("projectId", args.id)>>)
    [] tool = "find_schedule" ->
         BuildRequest("GET", <<"/", "search">>, "null",
                      <<Param("q", args.query), Param("type", "constructionTask"),
                        Param("projectId", args.id)>>)
    [] tool = "get_proposal_details" ->
         BuildRequest("GET", <<"/", "proposallines">>, "null", <<Param("proposalId", args.id)>>)
    [] tool = "get_project_finances" ->
         BuildRequest("GET", <<"/", "cost-variance">>, "null", <<Param("projectId", args.id)>>)

\* what the backend may do with one of these requests
CombineBehaviours == Behaviours({200, 500}, {"obj", NotJson})

\* what a combining handler hands back: an envelope (parts: the texts of
\* the sub-results a combined text is made of), or an exception
CombineReturned(text, isError, parts) ==
  [outcome |-> "returned", isError |-> isError, text |-> text, parts |-> parts]

CombineThrown ==
  [outcome |-> "thrown", isError |-> FALSE,
   text |-> [k |-> "exception", status |-> NoStatus, v |-> "exception"], parts |-> <<>>]

CombineNotReturned ==
  [outcome |-> "pending", isError |-> FALSE,
   text |-> [k |-> "none", status |-> NoStatus, v |-> "none"], parts |-> <<>>]

\* `return estimateResults;` and the like: the envelope of a makeRequest call
PassedOn(envelope) == CombineReturned(envelope.text, envelope.isError, <<>>)

\* JSON.stringify({...}, null, 2) of two sub-results, or the template string
CombinedText(kind) == [k |-> kind, status |-> NoStatus, v |-> "combined"]

\* get_financials after its Promise.all
get_financials(jobBalancesResult, costVarianceResult) ==
  IF jobBalancesResult.isError THEN PassedOn(jobBalancesResult)
  ELSE IF costVarianceResult.isError THEN PassedOn(costVarianceResult)
  ELSE CombineReturned(CombinedText("json"), FALSE,
                       <<jobBalancesResult.text, costVarianceResult.text>>)

\* a sequential handler after its first call returned: return, or call again
afterFirst(tool, args, first) ==
  CASE tool \in FindTools ->
         IF first.isError THEN [again |-> FALSE, result |-> PassedOn(first)]
         ELSE IF ~Falsy(args.id) THEN [again |-> TRUE, result |-> CombineNotReturned]
         ELSE [again |-> FALSE, result |-> PassedOn(first)]
    [] tool = "get_proposal_details" ->
         IF ~Falsy(args.includeLines) /\ ~first.isError
         THEN [again |-> TRUE, result |-> CombineNotReturned]
         ELSE [again |-> FALSE, result |-> PassedOn(first)]
    [] tool = "get_project_finances" ->
         [again |-> TRUE, result |-> CombineNotReturned]

\* a sequential handler after its second call returned
afterSecond(tool, first, second) ==
  CASE tool \in FindTools ->
         IF second.isError THEN PassedOn(second)
         ELSE IF JsonParseThrows(first.text) \/ JsonParseThrows(second.text)
         THEN CombineThrown
         ELSE CombineReturned(CombinedText("json"), FALSE, <<first.text, second.text>>)
    [] OTHER ->
         CombineReturned(CombinedText("concatenation"), FALSE, <<first.text, second.text>>)

cIdle ==
  /\ cPc = "idle"
  /\ cTool = "get_financials"
  /\ cArgs = NoCombineArgs
  /\ cCalls = <<>>
  /\ cBackend = <<NoAnswer, NoAnswer>>
  /\ cSub = <<Pending, Pending>>
  /\ cResult = CombineNotReturned

\* the tool is called: the handler runs up to its first await
cCall ==
  /\ cPc = "idle"
  /\ \E tool \in CombiningTools :
        \E args \in CombineArgs(tool) :
          /\ cTool' = tool
          /\ cArgs' = args
          /\ cCalls' = FirstRequests(tool, args)
          /\ cPc' = IF tool = "get_financials" THEN "all" ELSE "first"
  /\ UNCHANGED <<cBackend, cSub, cResult, notC>>

\* one of the two calls of get_financials returns; Promise.all may settle
cAllSettle(i) ==
  /\ cPc = "all"
  /\ cSub[i].outcome = "pending"
  /\ \E behaviour \in CombineBehaviours :
        LET settled == [cSub EXCEPT ![i] = makeRequest(behaviour)]
            all == PromiseAll(settled)
        IN  /\ cBackend' = [cBackend EXCEPT ![i] = behaviour]
            /\ cSub' = settled
            /\ IF all = "pending"
               THEN UNCHANGED <<cPc, cResult>>
               ELSE /\ cPc' = "done"
                    /\ cResult' = IF all = "rejected" THEN CombineThrown
                                  ELSE get_financials(settled[1], settled[2])
  /\ UNCHANGED <<cTool, cArgs, cCalls, notC>>

\* the first call of a sequential handler returns
cFirstSettle ==
  /\ cPc = "first"
  /\ \E behaviour \in CombineBehaviours :
        LET first == makeRequest(behaviour)
            step == afterFirst(cTool, cArgs, first)
        IN  /\ cBackend' = [cBackend EXCEPT ![1] = behaviour]
            /\ cSub' = [cSub EXCEPT ![1] = first]
            /\ IF first.outcome = "rejected"
               THEN /\ cResult' = CombineThrown
                    /\ cPc' = "done"
                    /\ UNCHANGED cCalls
               ELSE IF step.again
               THEN /\ cCalls' = Append(cCalls, SecondRequest(cTool, cArgs))
                    /\ cPc' = "second"
                    /\ UNCHANGED cResult
               ELSE /\ cResult' = step.result
                    /\ cPc' = "done"
                    /\ UNCHANGED cCalls
  /\ UNCHANGED <<cTool, cArgs, notC>>

\* the second call of a sequential handler returns
cSecondSettle ==
  /\ cPc = "second"
  /\ \E behaviour \in CombineBehaviours :
        LET second == makeRequest(behaviour)
        IN  /\ cBackend' = [cBackend EXCEPT ![2] = behaviour]
            /\ cSub' = [cSub EXCEPT ![2] = second]
            /\ cResult' = IF second.outcome = "rejected" THEN CombineThrown
                          ELSE afterSecond(cTool, cSub[1], second)
  /\ cPc' = "done"
  /\ UNCHANGED <<cTool, cArgs, cCalls, notC>>

\* ------------------------------------------------------------------------
\* Streaming relay: two invocations of the handler at the same time
\* ------------------------------------------------------------------------
Invocations == {1, 2}

\* a shared buffer, finalResult and progressCount: declared outside the handler
CellShared(i) == 1

\* the storage an invocation's `let` declarations name: its own
Cell(i) == i

ConcKinds == {"progress", "completeA", "error"}

ConcStreams == SeqsUpTo(ConcKinds, MaxConcFrames)

\* let buffer = ''; let finalResult = null; let progressCount = 0;
FreshLocals == [buffer |-> <<>>, finalResult |-> "null", progressCount |-> 0]

NotInvoked ==
  [pc |-> "idle", frames |-> <<>>, pos |-> 0, reader |-> "none", timer |-> "unset",
   result |-> RelayNotReturned]

kIdle ==
  /\ inv = [i \in Invocations |-> NotInvoked]
  /\ locals = [i \in Invocations |-> FreshLocals]

\* invocation i is called: the POST is issued
kCall(i) ==
  /\ inv[i].pc = "idle"
  /\ inv' = [inv EXCEPT ![i].pc = "connecting"]
  /\ UNCHANGED <<locals, notK>>

\* its fetch rejects
kFetchReject(i) ==
  /\ inv[i].pc = "connecting"
  /\ inv' = [inv EXCEPT ![i].pc = "done", ![i].result = relayCatch("TypeError")]
  /\ UNCHANGED <<locals, notK>>

\* its fetch resolves with a 2xx response: reader, locals and timer are set up
kStreamOpen(i) ==
  /\ inv[i].pc = "connecting"
  /\ \E frames \in ConcStreams :
        inv' = [inv EXCEPT ![i].pc = "reading", ![i].frames = frames,
                           ![i].reader = "open", ![i].timer = "armed"]
  /\ locals' = [locals EXCEPT ![Cell(i)] = FreshLocals]
  /\ UNCHANGED notK

\* its reader.read() resolves with a chunk of n tokens, and the chunk is processed
kRead(i, n) ==
  /\ inv[i].pc = "reading"
  /\ inv[i].reader = "open"
  /\ n \in 1..(Len(StreamText(inv[i].frames, TRUE)) - inv[i].pos)
  /\ LET mine  == locals[Cell(i)]
         chunk == SubSeq(StreamText(inv[i].frames, TRUE), inv[i].pos + 1, inv[i].pos + n)
         lines == SplitFrames(mine.buffer \o chunk)
         st    == forLines(LoopState(mine.finalResult, mine.progressCount, FALSE, "none"),
                           completeLines(lines))
     IN  /\ locals' = [locals EXCEPT ![Cell(i)] =
                         [buffer |-> popped(lines), finalResult |-> st.finalResult,
                          progressCount |-> st.progressCount]]
         /\ inv' = IF st.returned
                   THEN [inv EXCEPT ![i].pos = @ + n, ![i].pc = "done",
                                    ![i].timer = clearTimeout(@),
                                    ![i].result = RelayReturned(EventErrorText(st.message), TRUE)]
                   ELSE [inv EXCEPT ![i].pos = @ + n]
  /\ UNCHANGED notK

\* its reader.read() resolves with done: the backend closed, or the reader was cancelled
kStreamEnd(i) ==
  /\ inv[i].pc = "reading"
  /\ \/ inv[i].reader = "open" /\ inv[i].pos = Len(StreamText(inv[i].frames, TRUE))
     \/ inv[i].reader = "cancelled"
  /\ inv' = [inv EXCEPT ![i].pc = "done",
                        ![i].reader = IF @ = "open" THEN "ended" ELSE @,
                        ![i].timer = clearTimeout(@),
                        ![i].result = relayFinal(locals[Cell(i)].finalResult,
                                                 locals[Cell(i)].progressCount)]
  /\ UNCHANGED <<locals, notK>>

\* its timer callback: reader.cancel()
kTimeout(i) ==
  /\ inv[i].timer = "armed"
  /\ inv' = [inv EXCEPT ![i].timer = "fired",
                        ![i].reader = IF @ = "open" THEN "cancelled" ELSE @]
  /\ UNCHANGED <<locals, notK>>

\* ------------------------------------------------------------------------
\* Simple tools: create_action_item and the list tools, of both servers
\* ------------------------------------------------------------------------
Servers == {1, 2}

SimpleTools ==
  {"create_action_item", "list_estimates", "list_action_items", "list_clients", "list_projects"}

\* an optional number argument (z.number().optional()): undefined, or a number
Absent == [given |-> FALSE, n |-> 0]

Given(n) == [given |-> TRUE, n |-> n]

OptionalNumbers(S) == {Absent} \cup {Given(n) : n \in S}

\* value || fallback, for an optional number
OrDefault(value, fallback) == IF ~value.given \/ value.n = 0 THEN fallback ELSE value.n

\* value ?? fallback, for an optional number
Nullish(value, fallback) == IF value.given THEN value.n ELSE fallback

\* Math.min(a, b)
MathMin(a, b) == IF a <= b THEN a ELSE b

LimitArgs == OptionalNumbers({-1, 0, 1, 3, 10, 11, 50})

PageArgs == OptionalNumbers({0, 2})

\* the arguments of create_action_item that the handler looks at; CostChange
\* and ScheduleChange are an object (TRUE) or undefined (FALSE)
ActionItemArgs ==
  [ActionTypeId : {1, 2, 3}, CostChange : BOOLEAN, ScheduleChange : BOOLEAN,
   Status : OptionalNumbers({0, 2}), Source : OptionalNumbers({0, 2})]

\* the arguments each tool's inputSchema lets through
SimpleArgs(server, tool) ==
  CASE tool = "create_action_item" -> ActionItemArgs
    [] tool \in {"list_clients", "list_projects"} ->
         [page : PageArgs, limit : LimitArgs]
    [] tool = "list_estimates" /\ server = 2 -> [limit : LimitArgs]
    [] tool = "list_action_items" /\ server = 2 ->
         [projectId : {"empty", "p9"}, limit : LimitArgs]
    [] OTHER -> [projectId : ProjectIdArgs, limit : LimitArgs]

\* text: 'Error: CostChange object ... is REQUIRED when ActionTypeId=1' (and
\* the same for ScheduleChange)
RequiredText(member) == [k |-> "required", status |-> NoStatus, v |-> member]

\* what a handler does before its first await: it returns an envelope at
\* once, or it hands one request to makeRequest
ReturnsAtOnce(envelope) == [envelope |-> envelope, requests |-> <<>>]

Requests(request) == [envelope |-> Pending, requests |-> <<request>>]

\* makeRequest('POST', endpoint, payload) for a payload object
PostRequest(endpoint, payload) ==
  [BuildRequest("POST", endpoint, "obj", <<>>) EXCEPT !.body = payload]

\* { page: ..., limit: ... } and the like, as Object.entries
NumberParam(key, n) == << <<key>>, ToString(n) >>

\* `if (projectId) { params.projectId = projectId }`
ProjectIdParam(projectId) ==
  IF Falsy(projectId) THEN <<>> ELSE << << <<"projectId">>, projectId >> >>

\* list_clients and list_projects, the same in both servers
list_paged(endpoint, args) ==
  Requests(BuildRequest("GET", endpoint, "null",
             << NumberParam("page", OrDefault(args.page, 1)),
                NumberParam("limit", OrDefault(args.limit, 5)) >>))

\* list_estimates and list_action_items of the first server
list_capped(endpoint, args) ==
  LET cappedLimit == MathMin(OrDefault(args.limit, 3), 10)
  IN  Requests(BuildRequest("GET", endpoint, "null",
                 << NumberParam("limit", cappedLimit) >> \o ProjectIdParam(args.projectId)))

\* list_estimates of the second server
list_estimates_2(args) ==
  Requests(BuildRequest("GET", <<"/", "estimates">>, "null",
             << NumberParam("limit", OrDefault(args.limit, 5)) >>))

\* list_action_items of the second server
list_action_items_2(args) ==
  Requests(BuildRequest("GET", <<"/", "action-items">>, "null",
             << << <<"projectId">>, args.projectId >>,
                NumberParam("limit", OrDefault(args.limit, 5)) >>))

\* create_action_item of the first server
create_action_item(args) ==
  IF args.ActionTypeId = 1 /\ ~args.CostChange
  THEN ReturnsAtOnce(Fulfilled(RequiredText("CostChange"), TRUE))
  ELSE IF args.ActionTypeId = 2 /\ ~args.ScheduleChange
  THEN ReturnsAtOnce(Fulfilled(RequiredText("ScheduleChange"), TRUE))
  ELSE LET payload == [args EXCEPT !.Status = Given(Nullish(args.Status, 1)),
                                   !.Source = Given(Nullish(args.Source, 1))]
       IN  Requests(PostRequest(<<"/", "action-items">>, payload))

\* create_action_item of the second server
create_action_item_2(args) == Requests(PostRequest(<<"/", "action-items">>, args))

\* the handler registered under the tool's name in the given server
SimpleHandler(server, tool, args) ==
  CASE tool = "list_clients"  -> list_paged(<<"/", "clients">>, args)
    [] tool = "list_projects" -> list_paged(<<"/", "project-details">>, args)
    [] tool = "list_estimates" ->
         IF server = 1 THEN list_capped(<<"/", "estimates">>, args) ELSE list_estimates_2(args)
    [] tool = "list_action_items" ->
         IF server = 1 THEN list_capped(<<"/", "action-items">>, args)
         ELSE list_action_items_2(args)
    [] tool = "create_action_item" ->
         IF server = 1 THEN create_action_item(args) ELSE create_action_item_2(args)

NotCalled == [server |-> 1, tool |-> "none", args |-> <<>>]

tIdle ==
  /\ tPc = "idle"
  /\ tArgs = NotCalled
  /\ tSent = <<>>
  /\ tResult = Pending

\* the tool is called: the handler runs up to its return or to makeRequest's fetch
tCall ==
  /\ tPc = "idle"
  /\ \E server \in Servers, tool \in SimpleTools :
       \E args \in SimpleArgs(server, tool) :
          LET handled == SimpleHandler(server, tool, args)
          IN  /\ tArgs' = [server |-> server, tool |-> tool, args |-> args]
              /\ tSent' = handled.requests
              /\ tResult' = handled.envelope
              /\ tPc' = IF handled.requests = <<>> THEN "done" ELSE "fetch"
  /\ UNCHANGED notT

\* makeRequest settles and the handler returns its envelope
tSettle ==
  /\ tPc = "fetch"
  /\ \E behaviour \in Behaviours({200, 500}, {"obj", NotJson}) :
        tResult' = makeRequest(behaviour)
  /\ tPc' = "done"
  /\ UNCHANGED <<tArgs, tSent, notT>>

\* ------------------------------------------------------------------------
\* Specifications
\* ------------------------------------------------------------------------
Init == Configured /\ mrIdle /\ dIdle /\ rIdle /\ wIdle /\ cIdle /\ kIdle /\ tIdle

InitRequest == Init

NextRequest == mrCall \/ mrFetchSettle \/ mrJsonSettle

SpecRequest == InitRequest /\ [][NextRequest]_vars

\* the aggregator and the relay never read the configuration
InitDiscover == Init /\ config.apiKey = "undefined"

NextDiscover == dCall \/ dSearchSettle \/ (\E i \in Branches(dTool) : dBranchSettle(i))

SpecDiscover == InitDiscover /\ [][NextDiscover]_vars

InitRelay == Init /\ config.apiKey = "undefined"

NextRelay ==
  \/ rCall \/ rFetchReject \/ rHttpError \/ rNoBody \/ rStreamOpen
  \/ (\E n \in 1..(MaxFrames * 4) : rRead(n))
  \/ rStreamEnd \/ rReadError \/ rTimeout

SpecRelay == InitRelay /\ [][NextRelay]_vars

\* one invocation of the async tool, of either server
InitAsync == InitRelay

NextAsync ==
  \/ (wPc = "idle" /\ rCall)
  \/ rFetchReject \/ rHttpError \/ rNoBody \/ rStreamOpen
  \/ (\E n \in 1..(MaxFrames * 4) : rRead(n))
  \/ rStreamEnd \/ rReadError \/ rTimeout
  \/ (rPc = "idle" /\ wCall)
  \/ wFetchReject \/ wHeaders \/ wBody \/ wBodyError \/ wTimeout

SpecAsync == InitAsync /\ [][NextAsync]_vars

InitCombine == Init

NextCombine == cCall \/ (\E i \in 1..2 : cAllSettle(i)) \/ cFirstSettle \/ cSecondSettle

SpecCombine == InitCombine /\ [][NextCombine]_vars

InitConcurrent == Init /\ config.apiKey = "undefined"

NextConcurrent ==
  \E i \in Invocations :
    \/ kCall(i) \/ kFetchReject(i) \/ kStreamOpen(i)
    \/ (\E n \in 1..(MaxConcFrames * 4) : kRead(i, n))
    \/ kStreamEnd(i) \/ kTimeout(i)

SpecConcurrent == InitConcurrent /\ [][NextConcurrent]_vars

InitSimple == Init /\ config.apiKey = "undefined"

NextSimple == tCall \/ tSettle

SpecSimple == InitSimple /\ [][NextSimple]_vars

\* ------------------------------------------------------------------------
\* Claims about makeRequest
\* ------------------------------------------------------------------------
\* a failure path of makeRequest: transport failure, non-2xx, or a body that is not JSON
FailurePath(behaviour) ==
  \/ behaviour.kind = "netfail"
  \/ ~ResponseOk(behaviour)
  \/ behaviour.body = NotJson

\* C1: makeRequest never rejects: once it has returned, its promise is
\* fulfilled with an envelope, and on every failure path (transport failure,
\* non-2xx status, body that is not JSON) that envelope has isError set.
C1_NeverRejects ==
  mrPc = "done" =>
    /\ mrPromise.outcome = "fulfilled"
    /\ (FailurePath(mrResponse) => mrPromise.isError)
    /\ (~FailurePath(mrResponse) => ~mrPromise.isError)

\* C1 witness: a 2xx answer whose body is not JSON came back as an error envelope
C1_Witness ==
  /\ mrPc = "done"
  /\ mrResponse.kind = "answer" /\ ResponseOk(mrResponse) /\ mrResponse.body = NotJson
  /\ mrPromise.outcome = "fulfilled" /\ mrPromise.isError

\* C2: every non-2xx answer, whether or not its body is JSON, gives an error
\* envelope whose message carries the answer's status code; a transport
\* failure gives an error envelope without a status code.
C2_StatusCarried ==
  mrPc = "done" =>
    /\ (mrResponse.kind = "answer" /\ ~ResponseOk(mrResponse) =>
          mrPromise.isError /\ mrPromise.text.status = mrResponse.status)
    /\ (mrResponse.kind = "netfail" =>
          mrPromise.isError /\ mrPromise.text.status = NoStatus)

\* the query pairs the backend reads from the requested URL
SentQueryPairs == ParseQuery(mrSent[1].url.query)

\* the params entries whose value is neither undefined nor null, stringified
NonNullEntries(params) == AppendParams(<<>>, params)

\* C3: the query of the requested URL holds exactly the params entries whose
\* value is neither undefined nor null, each with its stringified value.
C3_QueryKeysExact ==
  mrPc # "idle" => Range(SentQueryPairs) = Range(NonNullEntries(mrArgs.params))

\* C4: the path of every request sent starts with the version prefix /api/v1,
\* followed by the endpoint's path.
C4_VersionPrefix ==
  mrPc # "idle" =>
    LET path == mrSent[1].url.path
    IN  Len(path) >= 3 /\ path[1] = <<"api">> /\ path[2] = <<"v1">>

\* a header of the request that carries the configured key
CarriesKey(request) == \E h \in request.headers : h.value = config.apiKey

\* a header that carries a credential at all
CarriesCredential(request) ==
  \E h \in request.headers : h.name \in {"Authorization", "X-API-Key"} \/ h.value = "secret"

\* C18: when an API key is configured every request handed to fetch carries
\* it in a header; when none is configured no request carries a credential.
C18_ApiKeyForwarded ==
  \A i \in 1..Len(mrSent) :
    IF config.apiKey # "undefined"
    THEN CarriesKey(mrSent[i])
    ELSE ~CarriesCredential(mrSent[i])

\* ------------------------------------------------------------------------
\* Claims about the fan-out aggregator
\* ------------------------------------------------------------------------
\* the fan-out requests have been issued
FanoutIssued == Len(dCalls) >= Len(FanoutEndpoints(dTool))

\* the sections each tool declares, and the endpoint each section is for
DeclaredSections(tool) ==
  IF tool = "discover"
  THEN {"project", "financials.estimates", "financials.jobBalances",
        "financials.costVariance", "schedules", "actionItems"}
  ELSE {"TRANSACTIONS", "ACTION ITEMS", "ESTIMATES", "SCHEDULES",
        "SCHEDULE REVISIONS", "ESTIMATE REVISIONS"}

DesignatedEndpoint(sectionName) ==
  CASE sectionName = "project"                 -> <<"/", "projects">>
    [] sectionName = "financials.estimates"    -> <<"/", "estimates">>
    [] sectionName = "financials.jobBalances"  -> <<"/", "job-balances">>
    [] sectionName = "financials.costVariance" -> <<"/", "cost-variance">>
    [] sectionName = "schedules"               -> <<"/", "schedules">>
    [] sectionName = "actionItems"             -> <<"/", "action-items">>
    [] sectionName = "TRANSACTIONS"            -> <<"/", "transactions">>
    [] sectionName = "ACTION ITEMS"            -> <<"/", "action-items">>
    [] sectionName = "ESTIMATES"               -> <<"/", "estimates">>
    [] sectionName = "SCHEDULES"               -> <<"/", "schedules">>
    [] sectionName = "SCHEDULE REVISIONS"      -> <<"/", "schedule-revisions">>
    [] sectionName = "ESTIMATE REVISIONS"      -> <<"/", "estimates", "/", "revision-history">>

\* the position in the Promise.all array of the request to an endpoint
CallTo(endpoint) ==
  CHOOSE i \in Branches(dTool) : FanoutEndpoints(dTool)[i] = endpoint

\* what the backend did with the request for a section
BackendFor(sectionName) == dBackend[CallTo(DesignatedEndpoint(sectionName))]

\* C5: whichever fan-out branches fail, the tool reports success and the
\* document has every declared section: an error placeholder where the
\* section's branch failed, the parsed JSON of the answer where it succeeded.
C5_PartialFailure ==
  (dPc = "done" /\ FanoutIssued) =>
    /\ dResult.outcome = "returned" /\ ~dResult.isError
    /\ DeclaredSections(dTool) \subseteq DOMAIN dResult.doc
    /\ \A sectionName \in DeclaredSections(dTool) :
         IF FailurePath(BackendFor(sectionName))
         THEN /\ dResult.doc[sectionName].error
              /\ dResult.doc[sectionName].of.k \in {"apierror", "networkerror"}
         ELSE /\ ~dResult.doc[sectionName].error
              /\ dResult.doc[sectionName].of = JsonText(BackendFor(sectionName).body)

\* C5 witness: discover returned with /schedules failed at transport level,
\* /estimates answered 500, and the four other branches succeeded
C5_Witness ==
  /\ dPc = "done" /\ dTool = "discover" /\ FanoutIssued
  /\ BackendFor("schedules").kind = "netfail"
  /\ BackendFor("financials.estimates").status = 500
  /\ \A sectionName \in DeclaredSections(dTool) \ {"schedules", "financials.estimates"} :
       ~FailurePath(BackendFor(sectionName))
  /\ dResult.outcome = "returned" /\ ~dResult.isError

\* the search step failed, or found no candidate project
SearchFailedOrEmpty ==
  /\ dSearchBackend.kind # "none"
  /\ \/ FailurePath(dSearchBackend)
     \/ ProjectsOf(dSearchBackend.body) = <<>>

\* C6: with no projectId supplied, when the search step fails or finds no
\* candidate project the tool returns one error envelope and the search
\* request is the only request made.
C6_NoFanoutAfterFailedSearch ==
  (Falsy(dArgs.projectId) /\ SearchFailedOrEmpty) =>
    /\ dPc = "done"
    /\ dResult.outcome = "returned" /\ dResult.isError /\ dResult.doc = NoDoc
    /\ Len(dCalls) = 1

\* C6 witness: the search answered 200 with {data: []}
C6_Witness ==
  /\ dPc = "done" /\ Falsy(dArgs.projectId)
  /\ dSearchBackend = Answer(200, "data_empty")
  /\ dResult.text.k = "noproject" /\ Len(dCalls) = 1

\* C7: the tool hands back its document only when every fan-out request has
\* settled; a failed branch does not make it return early.
C7_WaitsForAll ==
  (FanoutIssued /\ dResult.outcome # "pending") =>
    /\ \A i \in Branches(dTool) : dBranches[i].outcome = "fulfilled"
    /\ dResult.outcome = "returned" /\ dResult.doc # NoDoc

\* C7 witness: the first request of the array failed and the tool returned
C7_Witness ==
  /\ dPc = "done" /\ FanoutIssued /\ dResult.outcome = "returned"
  /\ dBackend[1].kind = "netfail"
  /\ \E i \in Branches(dTool) : ~FailurePath(dBackend[i])

\* the section a backend behaviour is expected to show up as
ExpectedSection(behaviour) ==
  CASE behaviour.kind = "netfail" -> [error |-> TRUE, of |-> NetworkErrorText("fetch failed")]
    [] behaviour.kind = "answer" /\ behaviour.body = NotJson ->
         [error |-> TRUE, of |-> NetworkErrorText("SyntaxError")]
    [] behaviour.kind = "answer" /\ behaviour.body # NotJson /\ behaviour.status >= 300 ->
         [error |-> TRUE, of |-> ApiErrorText(behaviour.status, behaviour.body)]
    [] OTHER -> [error |-> FALSE, of |-> JsonText(behaviour.body)]

\* C8: each section of the output holds the result of its own endpoint,
\* whatever the order in which the requests completed: the output is a
\* function of what the backend answered at each endpoint.
C8_SectionsByEndpoint ==
  (dPc = "done" /\ FanoutIssued) =>
    \A sectionName \in DeclaredSections(dTool) :
      dResult.doc[sectionName] = ExpectedSection(BackendFor(sectionName))

\* C8 witness: discover returned with /schedules answered and /estimates failed,
\* the two being told apart in the document
C8_Witness ==
  /\ dPc = "done" /\ dTool = "discover" /\ FanoutIssued
  /\ BackendFor("schedules") = Answer(200, "schedules")
  /\ BackendFor("financials.estimates").kind = "netfail"
  /\ dResult.doc["schedules"].of = JsonText("schedules")
  /\ dResult.doc["financials.estimates"].error

\* the number of parallel fetches the documentation gives for the aggregating tool
DocumentedFetches == 7

\* C17: once the fan-out is issued, a call that was given a projectId has
\* made 7 requests and no search request; a call that was not has made 8:
\* the search request first, answered before any fetch was issued, then 7.
C17_CallCounts ==
  FanoutIssued =>
    IF ~Falsy(dArgs.projectId)
    THEN /\ Len(dCalls) = DocumentedFetches
         /\ \A i \in 1..Len(dCalls) : dCalls[i] # SearchRequest(dArgs.query)
    ELSE /\ Len(dCalls) = 1 + DocumentedFetches
         /\ dCalls[1] = SearchRequest(dArgs.query)
         /\ dSearchBackend # NoAnswer

\* the fan-out requests: the last six calls
FanoutCalls == SubSeq(dCalls, Len(dCalls) - Len(FanoutEndpoints(dTool)) + 1, Len(dCalls))

\* the project identifiers a caller or a search match can give
ProjectIds == {"p1", "p2", "p9"}

\* the projectId filter a request carries, if it is its only query parameter
CarriesProjectId(request, id) ==
  ParseQuery(request.url.query) = << << <<"projectId">>, <<id>> >> >>

\* C30: every fan-out request carries a projectId query parameter, the same
\* in all of them: the projectId that was supplied, or else the projectId of
\* the first search match; the fan-out is never issued without that filter.
C30_ProjectIdFilter ==
  FanoutIssued =>
    \E id \in ProjectIds :
      /\ id = (IF ~Falsy(dArgs.projectId) THEN dArgs.projectId
                                          ELSE ProjectsOf(dSearchBackend.body)[1])
      /\ \A i \in 1..Len(FanoutCalls) : CarriesProjectId(FanoutCalls[i], id)

\* ------------------------------------------------------------------------
\* Claims about the combining tools
\* ------------------------------------------------------------------------
\* a request the handler made has failed
SubRequestFailed == \E i \in 1..2 : cSub[i].outcome = "fulfilled" /\ cSub[i].isError

\* C15: a combining tool never throws, and once it has returned it has
\* handed back an envelope with its text, with isError set whenever a
\* request it made has failed.
C15_WellFormedEnvelope ==
  /\ cResult.outcome # "thrown"
  /\ (cPc = "done" =>
        /\ cResult.outcome = "returned"
        /\ cResult.text.k # "none"
        /\ (SubRequestFailed => cResult.isError))

\* ------------------------------------------------------------------------
\* Claims about the streaming relay
\* ------------------------------------------------------------------------
CompleteKinds == {"completeA", "complete0"}

ErrorKinds == {"error", "errorB"}

\* the payload d of a complete frame
CompleteData(kind) ==
  CASE kind = "completeA" -> "a"
    [] kind = "complete0" -> "zero"

\* the backend sent all of its stream and closed it, and the relay has returned
ClosedByBackend == rPc = "done" /\ rReader = "ended"

\* the frames that were followed by a blank line: the events of the stream
Events == IF rTerminated THEN rFrames ELSE SubSeq(rFrames, 1, Len(rFrames) - 1)

CountOf(frames, kinds) == Cardinality({i \in 1..Len(frames) : frames[i] \in kinds})

\* the stream is k progress events followed by one complete event
ProgressThenComplete ==
  /\ rTerminated /\ Len(rFrames) >= 1
  /\ rFrames[Len(rFrames)] \in CompleteKinds
  /\ \A i \in 1..(Len(rFrames) - 1) : rFrames[i] = "progress"

\* C9: a stream of k progress events, then a complete event with payload d,
\* then end of stream, gives a success envelope whose content is d, with
\* exactly k progress events counted.
C9_ProgressThenComplete ==
  (ClosedByBackend /\ ProgressThenComplete) =>
    /\ rResult = RelayReturned(ResultText(CompleteData(rFrames[Len(rFrames)])), FALSE)
    /\ progressCount = Len(rFrames) - 1

\* C10: when the backend closes the stream after k progress events and no
\* complete or error event, the relay returns an error envelope for an
\* incomplete stream whose message gives the number k.
C10_IncompleteStream ==
  (ClosedByBackend /\ CountOf(Events, CompleteKinds \cup ErrorKinds) = 0) =>
    /\ rResult.isError
    /\ rResult.text.k = "incomplete"
    /\ rResult.text.n = CountOf(Events, {"progress"})

\* C10 witness: two progress events and a frame that is no event, then the end
C10_Witness ==
  /\ ClosedByBackend
  /\ CountOf(Events, {"progress"}) = 2 /\ Len(rFrames) = 3
  /\ CountOf(Events, CompleteKinds \cup ErrorKinds) = 0
  /\ rResult = RelayReturned(IncompleteText(2), TRUE)

\* the text the relay has read so far, and the frames in it that were followed
\* by a blank line
Consumed == SubSeq(StreamText(rFrames, rTerminated), 1, rPos)

ReceivedLines ==
  LET lines == SplitFrames(Consumed) IN SubSeq(lines, 1, Len(lines) - 1)

IsEvent(line, type) ==
  /\ ~lineSkipped(line)
  /\ ~JsonParseFails(line)
  /\ EventType(Payload(line)[1]) = type

ErrorReceived == \E i \in 1..Len(ReceivedLines) : IsEvent(ReceivedLines[i], "error")

FirstError ==
  CHOOSE i \in 1..Len(ReceivedLines) :
    /\ IsEvent(ReceivedLines[i], "error")
    /\ \A j \in 1..(i - 1) : ~IsEvent(ReceivedLines[j], "error")

\* the value of finalResult after the given lines: the data of the last complete event
RECURSIVE LastComplete(_)
LastComplete(lines) ==
  IF lines = <<>> THEN "null"
  ELSE IF IsEvent(lines[Len(lines)], "complete")
       THEN EventData(Payload(lines[Len(lines)])[1])
       ELSE LastComplete(SubSeq(lines, 1, Len(lines) - 1))

ProgressIn(lines) == Cardinality({i \in 1..Len(lines) : IsEvent(lines[i], "progress")})

\* the timer fired while no complete and no error event had been received,
\* and the relay has returned
TimedOutBeforeTerminal ==
  /\ rPc = "done"
  /\ rTimer = "fired"
  /\ ~ErrorReceived
  /\ \A i \in 1..Len(ReceivedLines) : ~IsEvent(ReceivedLines[i], "complete")

\* C11: when the timeout elapses before any complete or error event has
\* arrived, the relay returns an error envelope whose message names the
\* timeout (not the incomplete-stream message, not an error-event message),
\* and the reader has been cancelled exactly once.
C11_TimeoutAttributed ==
  TimedOutBeforeTerminal =>
    /\ rResult.isError
    /\ rResult.text.k = "timeout"
    /\ rCancels = 1

\* C12: once an error event has been received the relay has returned: the
\* envelope is an error carrying the message of that (first) error event, the
\* timer is cleared, no frame after the error event was processed (the
\* counters are those of the frames before it), and no further read is made.
C12_ErrorState ==
  ErrorReceived =>
    LET before == SubSeq(ReceivedLines, 1, FirstError - 1)
    IN  /\ rPc = "done"
        /\ rResult = RelayReturned(
                        EventErrorText(EventMessage(Payload(ReceivedLines[FirstError])[1])), TRUE)
        /\ rTimer = "cleared"
        /\ progressCount = ProgressIn(before)
        /\ finalResult = LastComplete(before)

C12_ErrorEventStops == [](C12_ErrorState) /\ [][ErrorReceived => rPos' = rPos]_vars

\* C12 witness: an error event and two more frames arrived in one chunk, the
\* second error event's message is not the one returned
C12_Witness ==
  /\ rPc = "done"
  /\ rFrames = <<"errorB", "progress", "error">>
  /\ rPos = Len(StreamText(rFrames, rTerminated))
  /\ progressCount = 0
  /\ rResult = RelayReturned(EventErrorText("quota exceeded"), TRUE)

\* C13: whenever the relay has returned after taking the stream reader, the
\* timer is no longer pending, the reader has been released (the stream has
\* ended or failed) or cancelled, and the timeout has cancelled it at most
\* once; with no timer pending, no cancel can follow the return.
C13_ResourceDiscipline ==
  (rPc = "done" /\ rReader # "none") =>
    /\ rTimer \in {"cleared", "fired"}
    /\ rReader \in {"ended", "cancelled", "errored"}
    /\ rCancels <= 1

\* the moves of one invocation
RelayMoves ==
  {<<"idle", "connecting">>, <<"connecting", "reading">>, <<"connecting", "done">>,
   <<"reading", "reading">>, <<"reading", "done">>}

\* C14: an invocation moves from connecting to streaming to a terminal state
\* (or fails while connecting); a terminal state is absorbing: nothing of the
\* invocation changes after it; and the envelope is produced exactly once, on
\* the move into the terminal state.
C14_Step ==
  /\ (rVars' # rVars => <<rPc, rPc'>> \in RelayMoves)
  /\ (rPc = "done" => rVars' = rVars)
  /\ (rResult' # rResult =>
        rPc # "done" /\ rPc' = "done"
        /\ rResult.outcome = "pending" /\ rResult'.outcome = "returned")
  /\ (rPc' = "done" => rResult'.outcome = "returned")
  /\ (rPc' # "done" => rResult'.outcome = "pending")

C20_LastCompleteWins ==
  (ClosedByBackend /\ ~ErrorReceived /\ CountOf(Events, CompleteKinds) >= 1) =>
    /\ rPos = Len(StreamText(rFrames, rTerminated))
    /\ rResult = RelayReturned(ResultText(LastComplete(ReceivedLines)), FALSE)

\* the loop's state after the given text has arrived in one single chunk
OneChunk(text) ==
  LET lines == SplitFrames(text)
  IN  forLines(LoopState("null", 0, FALSE, "none"), SubSeq(lines, 1, Len(lines) - 1))

\* C21: however the stream was cut into chunks, the relay is in the state that
\* one single chunk holding the same text gives: the same events were handled
\* in the same order, each once (same counter, same captured result, same
\* error return), and the text after the last blank line is kept in the buffer.
C21_ChunkIndependent ==
  rReader # "none" =>
    LET lines == SplitFrames(Consumed)
        st    == OneChunk(Consumed)
    IN  /\ finalResult = st.finalResult
        /\ progressCount = st.progressCount
        /\ buffer = lines[Len(lines)]
        /\ st.returned => rResult = RelayReturned(EventErrorText(st.message), TRUE)
        /\ ~st.returned => rResult.text.k # "eventerror"

\* C21 witness: the last chunk ended between the two newlines that close the
\* second frame; the first frame was handled, the second is kept unparsed
C21_Witness ==
  /\ rPc = "reading"
  /\ rFrames = <<"progress", "completeA">>
  /\ buffer = <<DataMarker, "{complete:a}", LF>>
  /\ progressCount = 1
  /\ finalResult = "null"

\* the relay has returned from the read loop or after it (not through the catch)
ReturnedFromLoop == rPc = "done" /\ rReader \in {"open", "ended", "cancelled"}

\* the envelope the loop and the final test give for the given lines
EnvelopeOf(lines) ==
  LET st == forLines(LoopState("null", 0, FALSE, "none"), lines)
  IN  IF st.returned
      THEN RelayReturned(EventErrorText(st.message), TRUE)
      ELSE relayFinal(st.finalResult, st.progressCount)

\* the received lines with every progress event taken out
WithoutProgress == SelectSeq(ReceivedLines, LAMBDA line : ~IsEvent(line, "progress"))

\* C22 as stated: the envelope is the one the same stream without its progress
\* events gives.
C22_ProgressInvisible ==
  ReturnedFromLoop => rResult = EnvelopeOf(WithoutProgress)

\* C22: progress events change neither the error flag nor the kind and payload
\* of the envelope; only the incomplete-stream error differs, by the number
\* of progress events its message gives.
C22_ProgressOnlyCounted ==
  ReturnedFromLoop =>
    LET without == EnvelopeOf(WithoutProgress)
    IN  /\ rResult.isError = without.isError
        /\ rResult.text.k = without.text.k
        /\ rResult.text.v = without.text.v
        /\ rResult.text.status = without.text.status
        /\ rResult.text.n # without.text.n =>
              /\ rResult.text.k = "incomplete"
              /\ rResult.text.n = ProgressIn(ReceivedLines)

\* C22 witness: a progress event before and one after a complete event; the
\* envelope is the complete event's data, the counter is 2
C22_Witness ==
  /\ ClosedByBackend
  /\ rFrames = <<"progress", "completeA", "progress">>
  /\ progressCount = 2
  /\ rResult = RelayReturned(ResultText("a"), FALSE)

\* a received line that does not start with the data marker, or whose payload
\* is not JSON
BadLine(line) == lineSkipped(line) \/ JsonParseFails(line)

\* the received lines with every bad line taken out
WithoutBad == SelectSeq(ReceivedLines, LAMBDA line : ~BadLine(line))

\* C23: bad frames are skipped and not fatal: the counter and the captured
\* result are those the received frames give with the bad ones taken out, the
\* relay returns from inside the loop only on an error event, and the
\* envelope it returns is the one the stream without the bad frames gives.
C23_BadFrameSkipped ==
  rReader # "none" =>
    LET st == forLines(LoopState("null", 0, FALSE, "none"), WithoutBad)
    IN  /\ finalResult = st.finalResult
        /\ progressCount = st.progressCount
        /\ (rPc = "done" /\ rReader = "open") => st.returned
        /\ ReturnedFromLoop => rResult = EnvelopeOf(WithoutBad)

\* C23 witness: a frame with a broken payload between a progress and a
\* complete event, both of which were handled
C23_Witness ==
  /\ ClosedByBackend
  /\ rFrames = <<"progress", "badjson", "completeA">>
  /\ progressCount = 1
  /\ rResult = RelayReturned(ResultText("a"), FALSE)

\* the webhook relay has returned and its POST was aborted by the timer, was
\* rejected by the network, was answered with a non-2xx status
WebhookAborted == wPc = "done" /\ wResponse = NoAnswer
WebhookRejected == wPc = "done" /\ wResponse = NetFail
WebhookRefused == wPc = "done" /\ wResponse \notin {NoAnswer, NetFail} /\ ~ResponseOk(wResponse)

\* C24: a failure of the connection setup gives an error envelope: the
\* timeout message when the timer aborted the POST, the generic message for
\* every other exception, and for a non-2xx response the message carrying the
\* status, the stream never being read.
C24_ConnectionSetup ==
  /\ (rPc = "done" /\ rReader = "none") =>
        /\ rResult.isError
        /\ rResult.text.k \in {"exception", "httperror"}
        /\ rResult.text.k = "httperror" => rResult.text.status \in {404, 500}
        /\ rPos = 0 /\ buffer = <<>>
  /\ WebhookAborted => wResult = RelayReturned(WebhookTimeoutText, TRUE)
  /\ WebhookRejected => wResult = RelayReturned(WebhookErrorText("TypeError"), TRUE)
  /\ WebhookRefused => wResult = RelayReturned(HttpErrorText(wResponse.status), TRUE)

\* the read loop was left through `done`: the stream ended or was cancelled
LoopEnded == rPc = "done" /\ rReader \in {"ended", "cancelled"}

CompleteReceived == \E i \in 1..Len(ReceivedLines) : IsEvent(ReceivedLines[i], "complete")

\* C27: when the stream ends after a complete event and without an error
\* event, the relay returns a success envelope carrying the complete event's
\* data, whatever JSON value the data is; the incomplete-stream error is
\* returned only when no complete event was received.
C27_CompleteSucceeds ==
  (LoopEnded /\ ~ErrorReceived) =>
    /\ CompleteReceived =>
          rResult = RelayReturned(ResultText(LastComplete(ReceivedLines)), FALSE)
    /\ rResult.text.k = "incomplete" => ~CompleteReceived

\* the backend closed the stream without a blank line after its last frame
ClosedInsideFrame == ClosedByBackend /\ ~rTerminated

\* the frames the backend sent before the last one
EarlierFrames == SubSeq(rFrames, 1, Len(rFrames) - 1)

FramesRead ==
  {i \in 1..Len(rFrames) :
     Len(StreamText(SubSeq(rFrames, 1, i), TRUE)) <= rPos}

\* C29: an error event is never masked by a complete event: once the relay
\* has returned, if an error frame was read with its blank line then the
\* envelope is the error carrying the message of the first such frame,
\* whatever complete frames were read before or after it in the same chunk.
C29_ErrorOverrides ==
  rPc = "done" =>
    \A i \in FramesRead :
      (rFrames[i] \in ErrorKinds /\ \A j \in 1..(i - 1) : rFrames[j] \notin ErrorKinds) =>
        /\ rResult.isError
        /\ rResult.text.k = "eventerror"
        /\ rResult.text.v = (IF rFrames[i] = "error" THEN "agent failed" ELSE "quota exceeded")

\* C29 witness: a complete event, an error event and another complete event
\* arrived in one chunk; the result captured before the error is not returned
C29_Witness ==
  /\ rPc = "done"
  /\ rFrames = <<"completeA", "error", "completeA">>
  /\ FramesRead = {1, 2, 3}
  /\ finalResult = "a"
  /\ rResult = RelayReturned(EventErrorText("agent failed"), TRUE)

\* the invocation is waiting for the backend: for headers, for a chunk, for a body
AwaitingStream == rPc \in {"connecting", "reading"}

AwaitingWebhook == wPc \in {"fetch", "text", "json"}

\* C16: an invocation returns no later than the overall timeout whatever the
\* backend does, also when it never sends headers or sends headers and then
\* nothing: so whenever an invocation is waiting for the backend, its timeout
\* is pending (the timer is set and not cleared, or it has fired and the
\* cancellation is taking effect).
C16_TimeoutPending ==
  /\ (AwaitingStream => rTimer \in {"armed", "fired"})
  /\ (AwaitingWebhook => wTimer \in {"armed", "fired"})

\* ------------------------------------------------------------------------
\* Claims about concurrent invocations
\* ------------------------------------------------------------------------
\* the text invocation i has read from its own stream
ConsumedBy(i) == SubSeq(StreamText(inv[i].frames, TRUE), 1, inv[i].pos)

\* the loop state of an invocation that reads that text alone, in one chunk
AloneState(text) ==
  LET lines == SplitFrames(text)
  IN  forLines(LoopState("null", 0, FALSE, "none"), SubSeq(lines, 1, Len(lines) - 1))

\* the buffer of an invocation that reads that text alone
AloneBuffer(text) == LET lines == SplitFrames(text) IN lines[Len(lines)]

\* the envelope of an invocation that reads that text alone and then sees the end
AloneResult(text) ==
  LET st == AloneState(text)
  IN  IF st.returned
      THEN RelayReturned(EventErrorText(st.message), TRUE)
      ELSE relayFinal(st.finalResult, st.progressCount)

\* C19: whatever the interleaving of two relay invocations, each one that
\* has read its stream holds exactly the buffer, progress count and captured
\* result it would hold reading the same text alone, and once it has
\* returned its envelope is the one it would return alone; its timer and
\* reader are cancelled by its own timeout only.
C19_Independent ==
  \A i \in Invocations :
    /\ (inv[i].pc = "reading" =>
          LET st == AloneState(ConsumedBy(i))
          IN  /\ locals[i].buffer = AloneBuffer(ConsumedBy(i))
              /\ locals[i].finalResult = st.finalResult
              /\ locals[i].progressCount = st.progressCount)
    /\ (inv[i].pc = "done" /\ inv[i].reader # "none" =>
          inv[i].result = AloneResult(ConsumedBy(i)))
    /\ (inv[i].reader = "cancelled" => inv[i].timer = "fired")

\* C19 witness: both invocations are in mid-stream at the same time, each
\* with part of its own frame in its buffer
C19_Witness ==
  /\ inv[1].pc = "reading" /\ inv[2].pc = "reading"
  /\ inv[1].frames = <<"progress">> /\ inv[2].frames = <<"completeA">>
  /\ locals[1].buffer = <<DataMarker, "{progress}", LF>>
  /\ locals[2].buffer = <<DataMarker>>

\* ------------------------------------------------------------------------
\* Claims about the simple tools
\* ------------------------------------------------------------------------
\* create_action_item was called
ActionItemCalled == tPc # "idle" /\ tArgs.tool = "create_action_item"

\* the nested object its ActionTypeId asks for is absent
NestedMissing(args) ==
  \/ args.ActionTypeId = 1 /\ ~args.CostChange
  \/ args.ActionTypeId = 2 /\ ~args.ScheduleChange

\* C25: create_action_item returns an error envelope and issues no request
\* when ActionTypeId is 1 without CostChange or 2 without ScheduleChange; in
\* every other case it issues exactly one POST /action-items whose payload
\* has the supplied Status and Source, or 1 where they are not supplied.
C25_ValidationGate ==
  ActionItemCalled =>
    LET args == tArgs.args
    IN  IF NestedMissing(args)
        THEN /\ tSent = <<>>
             /\ tPc = "done"
             /\ tResult.outcome = "fulfilled" /\ tResult.isError
        ELSE /\ Len(tSent) = 1
             /\ tSent[1].method = "POST"
             /\ tSent[1].url = BuildUrl(<<"/", "action-items">>, <<>>)
             /\ tSent[1].body.Status = (IF args.Status.given THEN args.Status ELSE Given(1))
             /\ tSent[1].body.Source = (IF args.Source.given THEN args.Source ELSE Given(1))

\* a list tool was called, and the query pairs the backend reads from its request
ListCalled(tools) == tPc # "idle" /\ tArgs.tool \in tools

SentPairs == Range(ParseQuery(tSent[1].url.query))

\* the request carries the query parameter key=n
Sends(key, n) == << <<key>>, <<ToString(n)>> >> \in SentPairs

LimitNumbers == -1..50

\* C26: list_estimates and list_action_items send a limit that never exceeds
\* 10: min(limit, 10) for a positive limit, 3 when limit is absent;
\* list_clients and list_projects send page=1 and limit=5 when those are
\* absent.
C26_CappedLimit ==
  /\ ListCalled({"list_estimates", "list_action_items"}) =>
       LET limit == tArgs.args.limit
       IN  /\ \E n \in LimitNumbers : n <= 10 /\ Sends("limit", n)
           /\ \A n \in LimitNumbers : n > 10 => ~Sends("limit", n)
           /\ (limit.given /\ limit.n > 0) =>
                Sends("limit", IF limit.n <= 10 THEN limit.n ELSE 10)
           /\ ~limit.given => Sends("limit", 3)
  /\ ListCalled({"list_clients", "list_projects"}) =>
       /\ ~tArgs.args.page.given => Sends("page", 1)
       /\ ~tArgs.args.limit.given => Sends("limit", 5)
====
